---- MODULE Spec2Model ----
(***************************************************************************)
(* The Miniverse package exporter (export.py).                             *)
(*                                                                         *)
(* A declaration text is modelled as the sequence of its lines (the text   *)
(* is the lines joined by "\n"; a final empty line is a trailing newline). *)
(* Every line is one token of the .tres format: a block header starting    *)
(* with "[", a body field, or a blank line.  The regular expressions of    *)
(* export.py are modelled by what they match on such a text.               *)
(*                                                                         *)
(* The project's declaration file is kept in structured form (decl, a      *)
(* sequence of blocks); Render turns it into the text the exporter reads   *)
(* and parses.                                                             *)
(*                                                                         *)
(* Spec is one run of export.py with _save_pck as one step; SpecPck is     *)
(* _save_pck step by step, with the subprocess and the two reader threads  *)
(* (SpecPckFair adds their scheduling); SpecRuns is export.py run several  *)
(* times on one project; SpecRebase is the workflow of rebase.py.          *)
(***************************************************************************)
EXTENDS Integers, Sequences, FiniteSets, TLC

VARIABLES
    project,            \* the project directory: marker, declaration file, host
    decl,               \* the blocks of the declaration file <name>/<name>.tres
    temp,               \* builds/.miniverse: [exists, files]
    mnv,                \* <output>/<name>.mnv: [state, entries]
    fs0,                \* the filesystem when the run started: <<temp, mnv>>
    pc,                 \* position in main / _export_package
    error,              \* the exception that ended the run ("" if none)
    steps,              \* the steps this run has executed, in order
    info,               \* the declaration text read from the file
    external_resources, \* id -> absolute path
    locales,            \* locale code -> text
    texture_layers,     \* ordered dict: sequence of [id, path, color]
    texture_group,      \* Optional[List]: [found, ids]
    tags,
    return_code,        \* exit code of the godot subprocess (-1: not run)
    manifest,           \* the JSON object written to <name>.json (<<>>: none)
    output_path,        \* the --output argument: where it points ("": not given)
    runs,               \* the number of this run of export.py on the project
    previous,           \* the manifest the run before this one wrote (<<>>: none)
    pck,                \* _save_pck: the subprocess, its pipes, the reader threads
    rebase              \* rebase.py: position, commands run, messages, exit status

vars == <<project, decl, temp, mnv, fs0, pc, error, steps, info,
          external_resources, locales, texture_layers, texture_group, tags,
          return_code, manifest, output_path, runs, previous, pck, rebase>>

(***************************************************************************)
(* Bounds of the model.                                                    *)
(***************************************************************************)
MaxDecls == 2       \* external-resource declarations in a text
MaxI18N == 2        \* blocks in a localisation text
MaxLayers == 2      \* texture-layer blocks in a texture text
MaxOutput == 2      \* lines the godot subprocess writes to one stream
PipeCap == 1        \* lines a pipe holds before a write to it blocks
MaxRuns == 2        \* runs of export.py on one project
MaxPrompts == 3     \* answers given at the prompt of rebase.py

(***************************************************************************)
(* Paths.  A path is the sequence of its segments; an absolute path starts *)
(* with the root segment "/".  A string is a sequence of tokens.           *)
(***************************************************************************)
ProjectPath == <<"/", "proj">>
ProjectName == "proj"

IsAbsolute(p) == Len(p) > 0 /\ p[1] = "/"

\* pathlib: a / b  (an absolute right operand replaces the left one)
JoinPath(a, b) == IF IsAbsolute(b) THEN b ELSE a \o b

IsRelativeTo(p, base) ==
    Len(p) >= Len(base) /\ SubSeq(p, 1, Len(base)) = base

\* pathlib: p.relative_to(base), defined when IsRelativeTo(p, base)
RelativeTo(p, base) == SubSeq(p, Len(base) + 1, Len(p))

\* str(path): the segments joined by the host's separator
RECURSIVE StrPath(_, _)
StrPath(p, sep) ==
    IF Len(p) = 0 THEN <<>>
    ELSE IF Len(p) = 1 THEN <<p[1]>>
    ELSE <<p[1], sep>> \o StrPath(Tail(p), sep)

\* s.replace("\\", "/")
ReplaceBackslash(s) == [i \in 1..Len(s) |-> IF s[i] = "\\" THEN "/" ELSE s[i]]

(***************************************************************************)
(* Lines of a declaration text.                                            *)
(***************************************************************************)
Line(k) == [k |-> k, id |-> "", val |-> "", path |-> <<>>, n |-> 0, ids |-> <<>>]

BlankLine == Line("blank")

\* the lines that start with "["
HeaderKinds == {"ext_resource", "I18N", "ColorTextureLayer", "ColorTextureGroup",
                "other_header"}

(***************************************************************************)
(* Blocks of a declaration file and their text.                            *)
(***************************************************************************)
Block(type) == [type |-> type, id |-> "", path |-> <<>>, tex |-> <<>>,
                color |-> <<>>, layers |-> <<>>, entries |-> <<>>,
                tags |-> <<>>, blank |-> FALSE]

HeaderLine(b) ==
    CASE b.type = "ext_resource" ->
            [Line("ext_resource") EXCEPT !.id = b.id, !.path = b.path]
      [] b.type = "I18N" -> Line("I18N")
      [] b.type = "ColorTextureLayer" ->
            [Line("ColorTextureLayer") EXCEPT !.id = b.id]
      [] b.type = "ColorTextureGroup" -> Line("ColorTextureGroup")
      [] OTHER -> Line("other_header")

EntryLine(e) ==
    IF e.quoted THEN [Line("locale") EXCEPT !.id = e.key, !.val = e.val]
    ELSE Line("junk")

BodyLines(b) ==
       [i \in 1..Len(b.tex) |-> [Line("texture") EXCEPT !.id = b.tex[i]]]
    \o [i \in 1..Len(b.color) |-> [Line("color") EXCEPT !.n = b.color[i]]]
    \o [i \in 1..Len(b.layers) |-> [Line("layers") EXCEPT !.ids = b.layers[i]]]
    \o [i \in 1..Len(b.entries) |-> EntryLine(b.entries[i])]
    \o [i \in 1..Len(b.tags) |-> [Line("tags") EXCEPT !.n = b.tags[i]]]

RenderBlock(b) ==
    <<HeaderLine(b)>> \o BodyLines(b) \o (IF b.blank THEN <<BlankLine>> ELSE <<>>)

RECURSIVE RenderBlocks(_)
RenderBlocks(bs) ==
    IF bs = <<>> THEN <<>> ELSE RenderBlock(Head(bs)) \o RenderBlocks(Tail(bs))

\* the text of the file; newline: the file ends with "\n"
Render(bs, newline) ==
    RenderBlocks(bs) \o (IF newline THEN <<BlankLine>> ELSE <<>>)

(***************************************************************************)
(* Regular-expression matching on a text.                                  *)
(***************************************************************************)
\* The lookahead (?=\n\s*\n|\n\[|\Z) that ends a block body, at the end of
\* line j: a blank line with a line after it, a line starting with "[", or
\* the end of the text.
BlockEndsAt(text, j) ==
    \/ j = Len(text)
    \/ text[j + 1].k \in HeaderKinds
    \/ text[j + 1].k = "blank" /\ j + 2 <= Len(text)

\* [\s\S]*? : the lazy body of the block whose header is line i ends at the
\* first line end where the lookahead holds.
RECURSIVE LazyEnd(_, _)
LazyEnd(text, i) == IF BlockEndsAt(text, i) THEN i ELSE LazyEnd(text, i + 1)

\* re.findall of a block pattern: the non-overlapping matches, left to
\* right, as <<first line, last line>> pairs.
RECURSIVE FindAllFrom(_, _, _)
FindAllFrom(kind, text, from) ==
    IF from > Len(text) THEN <<>>
    ELSE IF text[from].k = kind
         THEN <<<<from, LazyEnd(text, from)>>>>
              \o FindAllFrom(kind, text, LazyEnd(text, from) + 1)
         ELSE FindAllFrom(kind, text, from + 1)

FindAll(kind, text) == FindAllFrom(kind, text, 1)

\* EXTERNAL_RESOURCE_PATTERN: every well-formed declaration line
IsExtResource(l) == l.k = "ext_resource"
\* LOCALE_PATTERN: (\w+)\s*=\s*"(.*)"
IsLocale(l) == l.k = "locale"
\* TEXTURE_LAYER_TEXTURE_PATTERN
IsTexture(l) == l.k = "texture"
\* TEXTURE_LAYER_COLOR_PATTERN
IsColor(l) == l.k = "color"
\* TEXTURE_GROUP_LAYER_PATTERN: the bracketed list needs one character
IsLayers(l) == l.k = "layers" /\ Len(l.ids) > 0
\* TAG_PATTERN
IsTags(l) == l.k = "tags"

(***************************************************************************)
(* Python dictionaries.                                                    *)
(***************************************************************************)
EmptyDict == <<>>

\* d[k] = v on a dict whose order does not matter
DictSet(d, k, v) ==
    [x \in (DOMAIN d) \cup {k} |-> IF x = k THEN v ELSE d[x]]

\* d[id] = (path, color) on an insertion-ordered dict: an existing key keeps
\* its place
RECURSIVE LayerSet(_, _, _, _)
LayerSet(d, id, path, color) ==
    IF d = <<>> THEN <<[id |-> id, path |-> path, color |-> color]>>
    ELSE IF Head(d).id = id
         THEN <<[id |-> id, path |-> path, color |-> color]>> \o Tail(d)
         ELSE <<Head(d)>> \o LayerSet(Tail(d), id, path, color)

LayerIds(d) == {d[i].id : i \in 1..Len(d)}

(***************************************************************************)
(* The extractors.                                                         *)
(***************************************************************************)
\* path[6:] when path.startswith("res://")
StripRes(path) ==
    IF Len(path) > 0 /\ path[1] = "res://" THEN Tail(path) ELSE path

RECURSIVE ResourceLoop(_, _, _)
ResourceLoop(project_path, matches, d) ==
    IF matches = <<>> THEN d
    ELSE ResourceLoop(project_path, Tail(matches),
             DictSet(d, Head(matches).id,
                     JoinPath(project_path, StripRes(Head(matches).path))))

\* the loop with `if resource_id not in external_resources:` around the store
RECURSIVE ResourceLoopFirstWins(_, _, _)
ResourceLoopFirstWins(project_path, matches, d) ==
    IF matches = <<>> THEN d
    ELSE ResourceLoopFirstWins(project_path, Tail(matches),
             IF Head(matches).id \in DOMAIN d THEN d
             ELSE DictSet(d, Head(matches).id,
                          JoinPath(project_path, StripRes(Head(matches).path))))

get_external_resources_first_wins(project_path, text) ==
    ResourceLoopFirstWins(project_path, SelectSeq(text, IsExtResource), EmptyDict)

get_external_resources(project_path, text) ==
    ResourceLoop(project_path, SelectSeq(text, IsExtResource), EmptyDict)

RECURSIVE LocaleLoop(_, _)
LocaleLoop(matches, d) ==
    IF matches = <<>> THEN d
    ELSE LocaleLoop(Tail(matches), DictSet(d, Head(matches).id, Head(matches).val))

\* i18n_matches[0].split("\n", 1)[1]: an IndexError when the match is the
\* header line alone
LocalesRaises(text) ==
    LET i18n_matches == FindAll("I18N", text)
    IN  /\ Len(i18n_matches) = 1
        /\ i18n_matches[1][2] = i18n_matches[1][1]

get_locales_first_block(text) ==
    LET i18n_matches == FindAll("I18N", text)
    IN  IF Len(i18n_matches) = 0 THEN EmptyDict
        ELSE LET i18n == SubSeq(text, i18n_matches[1][1] + 1, i18n_matches[1][2])
             IN  LocaleLoop(SelectSeq(i18n, IsLocale), EmptyDict)

get_locales(text) ==
    LET i18n_matches == FindAll("I18N", text)
    IN  IF Len(i18n_matches) # 1 THEN EmptyDict
        ELSE LET i18n == SubSeq(text, i18n_matches[1][1] + 1, i18n_matches[1][2])
             IN  LocaleLoop(SelectSeq(i18n, IsLocale), EmptyDict)

\* int(color_match.group(1)) if color_match else 0
ColorOf_default_one(color_match) ==
    IF color_match # <<>> THEN color_match[1].n ELSE 1

ColorOf(color_match) ==
    IF color_match # <<>> THEN color_match[1].n ELSE 0

\* The loop over the texture-layer matches.  The result is [raised, layers]:
\* external_resources[texture_id] raises KeyError for an unknown id.
RECURSIVE LayerLoop(_, _, _, _)
LayerLoop(resources, text, matches, layers) ==
    IF matches = <<>> THEN [raised |-> FALSE, layers |-> layers]
    ELSE LET layer_id == text[Head(matches)[1]].id
             layer_match == SubSeq(text, Head(matches)[1] + 1, Head(matches)[2])
             texture_match == SelectSeq(layer_match, IsTexture)
             color_match == SelectSeq(layer_match, IsColor)
         IN  IF texture_match = <<>>
             THEN LayerLoop(resources, text, Tail(matches), layers)
             ELSE IF texture_match[1].id \notin DOMAIN resources
             THEN [raised |-> TRUE, layers |-> layers]
             ELSE LayerLoop(resources, text, Tail(matches),
                      LayerSet(layers, layer_id, resources[texture_match[1].id],
                               ColorOf(color_match)))

\* Optional[List[str]]: None, or a list of layer ids
NoGroup == [found |-> FALSE, ids |-> <<>>]

\* the loop without `if layer_id in layers:`
GroupOf_keeps_unknown(text, layers) ==
    LET group_match == SelectSeq([i \in 1..Len(text) |-> i],
                                 LAMBDA i : text[i].k = "ColorTextureGroup")
    IN  IF group_match = <<>> THEN NoGroup
        ELSE LET group_content ==
                     SubSeq(text, group_match[1], LazyEnd(text, group_match[1]))
                 layers_match == SelectSeq(group_content, IsLayers)
             IN  IF layers_match = <<>> THEN [found |-> TRUE, ids |-> <<>>]
                 ELSE [found |-> TRUE, ids |-> layers_match[1].ids]

GroupOf(text, layers) ==
    LET group_match == SelectSeq([i \in 1..Len(text) |-> i],
                                   LAMBDA i : text[i].k = "ColorTextureGroup")
    IN  IF group_match = <<>> THEN NoGroup
        ELSE LET group_content ==
                     SubSeq(text, group_match[1], LazyEnd(text, group_match[1]))
                 layers_match == SelectSeq(group_content, IsLayers)
             IN  IF layers_match = <<>> THEN [found |-> TRUE, ids |-> <<>>]
                 ELSE [found |-> TRUE,
                       ids |-> SelectSeq(layers_match[1].ids,
                                         LAMBDA id : id \in LayerIds(layers))]

get_textures(resources, text) ==
    LET r == LayerLoop(resources, text, FindAll("ColorTextureLayer", text), <<>>)
    IN  IF r.raised THEN [raised |-> TRUE, layers |-> <<>>, group |-> NoGroup]
        ELSE [raised |-> FALSE, layers |-> r.layers,
              group |-> GroupOf(text, r.layers)]

get_tags(text) ==
    LET tag_match == SelectSeq(text, IsTags)
    IN  IF tag_match # <<>> THEN tag_match[1].n ELSE 0

(***************************************************************************)
(* The manifest built by _save_json.                                       *)
(***************************************************************************)
\* `if texture_group is not None:`
IsNotNone(group) == group.found

\* `if texture_group:` : neither None nor an empty list
Truthy(group) == group.found /\ Len(group.ids) > 0

\* str(x) of a str is the string itself
StrOf(x) == <<x>>

\* a manifest that numbers the builds of the project
json_info_numbered(project_path, sep, name, layers, group, tag) ==
    [id |-> ProjectName,
     name |-> name,
     texture_layers |->
         [i \in 1..Len(layers) |->
             [id |-> layers[i].id,
              path |-> ReplaceBackslash(
                          StrPath(RelativeTo(layers[i].path, project_path), sep)),
              color |-> layers[i].color]],
     tags |-> tag,
     build |-> runs]

json_info(project_path, sep, name, layers, group, tag) ==
    LET base ==
            [id |-> ProjectName,
             name |-> name,
             texture_layers |->
                 [i \in 1..Len(layers) |->
                     [id |-> layers[i].id,
                      path |-> ReplaceBackslash(
                                  StrPath(RelativeTo(layers[i].path, project_path), sep)),
                      color |-> layers[i].color]],
             tags |-> tag]
    IN  IF Truthy(group)
        THEN base @@ [texture_group |->
                         [i \in 1..Len(group.ids) |->
                             ReplaceBackslash(StrOf(group.ids[i]))]]
        ELSE base

(***************************************************************************)
(* The declaration files the model explores.                               *)
(***************************************************************************)
SeqsUpTo(S, n) == UNION {[1..k -> S] : k \in 0..n}

Entry(key, val, quoted) == [key |-> key, val |-> val, quoted |-> quoted]

\* bodies of an internationalization block: empty, one or two entries, a
\* malformed entry (its value is not quoted)
LocaleBodies == {<<>>, <<Entry("en", "Hello", TRUE)>>,
                 <<Entry("en", "Hello", TRUE), Entry("ko", "Annyeong", TRUE)>>,
                 <<Entry("en", "Hello", FALSE)>>}

I18NBlocks == {[Block("I18N") EXCEPT !.entries = e, !.blank = b] :
                   e \in LocaleBodies, b \in BOOLEAN}

\* the [resource] block, with the tags field
ResourceBlock == [Block("resource") EXCEPT !.tags = <<3>>]

LocaleTexts == SeqsUpTo(I18NBlocks \cup {ResourceBlock}, MaxI18N)

DeclPaths == {<<"res://", "tex", "a.png">>, <<"res://", "b.png">>, <<"c.png">>,
              <<"/", "abs", "d.png">>}
ResourceIds == {"1", "2"}

Ext(path, id) == [Block("ext_resource") EXCEPT !.path = path, !.id = id]

\* well-formed declarations, and one the pattern does not match
ExtBlocks == {Ext(p, r) : p \in DeclPaths, r \in ResourceIds}
             \cup {Block("ext_malformed")}

ResourceTexts == SeqsUpTo(ExtBlocks, MaxDecls)

Preludes == {<<Ext(<<"res://", "tex", "a.png">>, "1")>>,
             <<Ext(<<"res://", "tex", "a.png">>, "1"), Ext(<<"res://", "b.png">>, "2")>>,
             <<Ext(<<"/", "abs", "d.png">>, "1"), Ext(<<"c.png">>, "2")>>}

LayerBlocks == {[Block("ColorTextureLayer") EXCEPT !.id = l, !.tex = t, !.color = c] :
                    l \in {"A", "B"}, t \in {<<>>, <<"1">>, <<"2">>},
                    c \in {<<>>, <<2>>}}

GroupBlocks == {[Block("ColorTextureGroup") EXCEPT !.layers = g] :
                    g \in {<<>>, <<<<"A", "B", "C">>>>, <<<<"B", "A">>>>,
                           <<<<"C">>>>, <<<<"A", "A">>>>}}

TextureTexts == {p \o l \o g : p \in Preludes, l \in SeqsUpTo(LayerBlocks, MaxLayers),
                               g \in {<<>>} \cup {<<b>> : b \in GroupBlocks}}

\* the round-trip example of the specification: layers A and B with colors
\* 1 and 2, and a group that references A, B and a missing C
RoundTrip ==
    <<Ext(<<"res://", "tex", "a.png">>, "1"), Ext(<<"res://", "b.png">>, "2"),
      [Block("ColorTextureLayer") EXCEPT !.id = "A", !.tex = <<"1">>, !.color = <<1>>],
      [Block("ColorTextureLayer") EXCEPT !.id = "B", !.tex = <<"2">>, !.color = <<2>>],
      [Block("ColorTextureGroup") EXCEPT !.layers = <<<<"A", "B", "C">>>>]>>

\* a texture layer whose texture is an external resource that is not declared
Dangling ==
    <<Ext(<<"res://", "tex", "a.png">>, "1"),
      [Block("ColorTextureLayer") EXCEPT !.id = "A", !.tex = <<"2">>, !.color = <<1>>]>>

Inputs ==
    {[decl |-> d, newline |-> n] : d \in LocaleTexts, n \in BOOLEAN}
    \cup {[decl |-> d, newline |-> TRUE] : d \in ResourceTexts \cup TextureTexts}

Projects == [marker : BOOLEAN, tres : {"ok", "missing", "unreadable"},
             newline : {TRUE}, sep : {"/", "\\"}]

DefaultProject(newline) ==
    [marker |-> TRUE, tres |-> "ok", newline |-> newline, sep |-> "/"]

\* builds/.miniverse: absent, or left behind by an earlier, failed run
NoTemp == [exists |-> FALSE, files |-> {}]
StaleTemp == [exists |-> TRUE, files |-> {<<"proj.pck">>, <<"stale.png">>}]

\* <output>/<name>.mnv: absent, or the package of an earlier run
NoPackage == [state |-> "none", entries |-> {}]
OldPackage == [state |-> "old", entries |-> {<<"proj.pck">>, <<"proj.json">>}]

\* --output: not given, a directory outside the staging directory, the
\* staging directory builds/.miniverse itself, or a directory in it
OutputPaths == {"", "elsewhere", "staging", "in staging"}

\* the package <output>/<name>.mnv is a file under builds/.miniverse
InStaging(output) == output \in {"staging", "in staging"}

\* <output>/<name>.mnv relative to builds/.miniverse
PackageInStaging(output) ==
    IF output = "staging" THEN <<"proj.mnv">> ELSE <<"out", "proj.mnv">>

\* process.stdout and process.stderr
Streams == {"stdout", "stderr"}

\* _save_pck before subprocess.Popen
PckIdle ==
    [main |-> "idle", proc |-> "none", code |-> -1,
     towrite |-> [s \in Streams |-> 0],
     pipe |-> [s \in Streams |-> 0],
     thread |-> [s \in Streams |-> "new"]]

\* rebase.py before main
RebaseIdle == [pc |-> "idle"]

(***************************************************************************)
(* main and _export_package.                                               *)
(***************************************************************************)
Init ==
    /\ \/ \E i \in Inputs :
            /\ decl = i.decl
            /\ project = DefaultProject(i.newline)
            /\ temp = NoTemp
            /\ mnv = NoPackage
            /\ output_path = ""
       \/ /\ project \in Projects
          /\ decl \in (IF project.tres = "missing" THEN {<<>>}
                       ELSE {<<>>, RoundTrip, Dangling})
          /\ temp \in {NoTemp, StaleTemp}
          /\ output_path \in OutputPaths
          /\ mnv \in (IF InStaging(output_path) THEN {NoPackage}
                      ELSE {NoPackage, OldPackage})
    /\ fs0 = <<temp, mnv>>
    /\ pc = "validate"
    /\ error = ""
    /\ steps = <<>>
    /\ info = <<>>
    /\ external_resources = EmptyDict
    /\ locales = EmptyDict
    /\ texture_layers = <<>>
    /\ texture_group = NoGroup
    /\ tags = 0
    /\ return_code = -1
    /\ manifest = <<>>
    /\ runs = 1
    /\ previous = <<>>
    /\ pck = PckIdle
    /\ rebase = RebaseIdle

locals == <<info, external_resources, locales, texture_layers, texture_group, tags>>
files == <<project, decl, fs0, output_path>>
\* what one step of a run of export.py never touches
others == <<runs, previous, rebase>>

\* an exception reaches main's handler: logging.error(e); sys.exit(1)
Raise(e) == pc' = "exit1" /\ error' = e

Goto(next) == pc' = next /\ error' = error

\* the calls of _export_package after extraction, in order
NextStepManifestFirst(step) ==
    CASE step = "stage" -> "pck"
      [] step = "pck" -> "json"
      [] step = "json" -> "textures"
      [] step = "textures" -> "zip"
      [] step = "zip" -> "rmtree"

NextStep(step) ==
    CASE step = "stage" -> "pck"
      [] step = "pck" -> "textures"
      [] step = "textures" -> "json"
      [] step = "json" -> "zip"
      [] step = "zip" -> "rmtree"

\* (project_path / "project.godot").exists()
IsGodotProjectUnchecked(p) == TRUE

IsGodotProject(p) == p.marker

\* if return_code != 0: raise
ExportFailedIgnored(code) == FALSE

ExportFailed(code) == code # 0

\* if not (project_path / "project.godot").exists(): raise
Validate ==
    /\ pc = "validate"
    /\ steps' = Append(steps, "validate")
    /\ IF IsGodotProject(project) THEN Goto("load") ELSE Raise("not a valid Godot project")
    /\ UNCHANGED <<files, others, pck, temp, mnv, locals, return_code, manifest>>

\* a run that prepares the staging directory before it reads the file
LoadAfterStaging ==
    /\ pc = "load"
    /\ steps' = Append(steps, "load")
    /\ temp' = [exists |-> TRUE, files |-> {}]
    /\ IF project.tres = "ok"
       THEN /\ info' = Render(decl, project.newline)
            /\ Goto("extract")
       ELSE /\ info' = info
            /\ Raise(IF project.tres = "missing" THEN "info file not found"
                     ELSE "failed to load info file")
    /\ UNCHANGED <<files, others, pck, mnv, external_resources, locales, texture_layers,
                   texture_group, tags, return_code, manifest>>

\* open(...).read() of <name>/<name>.tres
Load ==
    /\ pc = "load"
    /\ steps' = Append(steps, "load")
    /\ IF project.tres = "ok"
       THEN /\ info' = Render(decl, project.newline)
            /\ Goto("extract")
       ELSE /\ info' = info
            /\ Raise(IF project.tres = "missing" THEN "info file not found"
                     ELSE "failed to load info file")
    /\ UNCHANGED <<files, others, pck, temp, mnv, external_resources, locales, texture_layers,
                   texture_group, tags, return_code, manifest>>

\* the four extractors, in the order of the calls
Extract ==
    /\ pc = "extract"
    /\ steps' = Append(steps, "extract")
    /\ external_resources' = get_external_resources(ProjectPath, info)
    /\ IF LocalesRaises(info)
       THEN /\ Raise("IndexError")
            /\ UNCHANGED <<locales, texture_layers, texture_group, tags>>
       ELSE /\ locales' = get_locales(info)
            /\ LET t == get_textures(external_resources', info)
               IN  IF t.raised
                   THEN /\ Raise("KeyError")
                        /\ UNCHANGED <<texture_layers, texture_group, tags>>
                   ELSE /\ texture_layers' = t.layers
                        /\ texture_group' = t.group
                        /\ tags' = get_tags(info)
                        /\ Goto("stage")
    /\ UNCHANGED <<files, others, pck, temp, mnv, info, return_code, manifest>>

\* a staging step without `if temp_path.exists(): shutil.rmtree(temp_path)`
RmtreeKeepsFiles(t) == [exists |-> TRUE, files |-> t.files]

\* shutil.rmtree(temp_path): the directory is gone with everything in it
Rmtree(t) == [exists |-> FALSE, files |-> {}]

\* _create_temp_directory: rmtree when present, then mkdir; either may fail
create_temp_directory ==
    /\ pc = "stage"
    /\ steps' = Append(steps, "stage")
    /\ \E done \in BOOLEAN :
          IF done
          THEN /\ temp' = [Rmtree(temp) EXCEPT !.exists = TRUE]
               /\ mnv' = IF InStaging(output_path) THEN NoPackage ELSE mnv
               /\ Goto(NextStep("stage"))
          ELSE /\ UNCHANGED <<temp, mnv>>
               /\ Raise("OSError")
    /\ UNCHANGED <<files, others, pck, locals, return_code, manifest>>

\* _save_pck: the godot subprocess exits 0 and has written <name>.pck, or
\* exits non-zero (with or without a file written), or is not in PATH
save_pck ==
    /\ pc = "pck"
    /\ steps' = Append(steps, "pck")
    /\ \E outcome \in {"exported", "failed", "failed, file written", "not found"} :
          /\ return_code' = CASE outcome = "exported" -> 0
                              [] outcome = "not found" -> -1
                              [] OTHER -> 1
          /\ temp' = IF outcome \in {"exported", "failed, file written"}
                     THEN [temp EXCEPT !.files = @ \cup {<<"proj.pck">>}]
                     ELSE temp
          /\ IF outcome = "not found" THEN Raise("Godot executable not found")
             ELSE IF ExportFailed(return_code') THEN Raise("Failed exporting project")
             ELSE Goto(NextStep("pck"))
    /\ UNCHANGED <<files, others, pck, mnv, locals, manifest>>

\* the index of the first layer whose copy fails: relative_to raises for a
\* texture outside the project, shutil.copy raises at layer io_fail (0: never)
FirstFailure(layers, io_fail) ==
    LET bad == {i \in 1..Len(layers) :
                   \/ ~IsRelativeTo(layers[i].path, ProjectPath)
                   \/ i = io_fail}
    IN  IF bad = {} THEN 0 ELSE CHOOSE i \in bad : \A j \in bad : i <= j

\* _save_textures
save_textures ==
    /\ pc = "textures"
    /\ steps' = Append(steps, "textures")
    /\ \E io_fail \in 0..Len(texture_layers) :
          LET f == FirstFailure(texture_layers, io_fail)
              done == IF f = 0 THEN Len(texture_layers) ELSE f - 1
          IN  /\ temp' = [temp EXCEPT !.files = @ \cup
                            {RelativeTo(texture_layers[i].path, ProjectPath) :
                                 i \in 1..done}]
              /\ IF f = 0 THEN Goto(NextStep("textures"))
                 ELSE IF ~IsRelativeTo(texture_layers[f].path, ProjectPath)
                 THEN Raise("ValueError")
                 ELSE Raise("Failed copying texture")
    /\ UNCHANGED <<files, others, pck, mnv, locals, return_code, manifest>>

\* _save_json
save_json ==
    /\ pc = "json"
    /\ steps' = Append(steps, "json")
    /\ \E written \in BOOLEAN :
          IF written
          THEN /\ manifest' = <<json_info(ProjectPath, project.sep, locales,
                                          texture_layers, texture_group, tags)>>
               /\ temp' = [temp EXCEPT !.files = @ \cup {<<"proj.json">>}]
               /\ Goto(NextStep("json"))
          ELSE /\ UNCHANGED <<manifest, temp>>
               /\ Raise("OSError")
    /\ UNCHANGED <<files, others, pck, mnv, locals, return_code>>

\* os.walk(temp_path) without the `if file_path != zip_path` test
ZipEntriesWithArchive(walked, zip_path) == walked

\* the entries of the archive: the files os.walk(temp_path) finds, but the
\* archive, under their paths relative to temp_path
ZipEntries(walked, zip_path) == walked \ {zip_path}

\* _zip_package: write <name>.zip in the staging directory from every file
\* under it but the archive itself, then move it to <output>/<name>.mnv
zip_package ==
    /\ pc = "zip"
    /\ \E outcome \in {"moved", "zip failed", "move failed"} :
          /\ steps' = IF outcome = "zip failed" THEN Append(steps, "zip")
                      ELSE steps \o <<"zip", "move">>
          /\ IF outcome = "moved"
             THEN /\ mnv' = [state |-> "new",
                             entries |-> ZipEntries(temp.files \cup {<<"proj.zip">>},
                                                    <<"proj.zip">>)]
                  /\ temp' = [temp EXCEPT !.files =
                                 (@ \ {<<"proj.zip">>}) \cup
                                 (IF InStaging(output_path)
                                  THEN {PackageInStaging(output_path)} ELSE {})]
                  /\ Goto(NextStep("zip"))
             ELSE /\ mnv' = mnv
                  /\ temp' = [temp EXCEPT !.files = @ \cup {<<"proj.zip">>}]
                  /\ Raise("OSError")
    /\ UNCHANGED <<files, others, pck, locals, return_code, manifest>>

\* shutil.rmtree(temp_path), then main's sys.exit(0); rmtree may raise, with
\* nothing removed yet
rmtree ==
    /\ pc = "rmtree"
    /\ steps' = Append(steps, "rmtree")
    /\ \E done \in BOOLEAN :
          IF done
          THEN /\ temp' = Rmtree(temp)
               /\ mnv' = IF InStaging(output_path) THEN NoPackage ELSE mnv
               /\ pc' = "exit0"
               /\ error' = error
          ELSE /\ UNCHANGED <<temp, mnv>>
               /\ Raise("OSError")
    /\ UNCHANGED <<files, others, pck, locals, return_code, manifest>>

Next ==
    \/ Validate
    \/ Load
    \/ Extract
    \/ create_temp_directory
    \/ save_pck
    \/ save_textures
    \/ save_json
    \/ zip_package
    \/ rmtree

Spec == Init /\ [][Next]_vars

Terminated == pc \in {"exit0", "exit1"}

(***************************************************************************)
(* export.py run again and again on the same, unmodified project.          *)
(***************************************************************************)
\* a valid project with a readable declaration file
InitRuns ==
    /\ Init
    /\ project.marker
    /\ project.tres = "ok"
    /\ decl \in {<<>>, RoundTrip, Dangling}

\* the next invocation of export.py: it finds the files the last one left
Rerun ==
    /\ Terminated
    /\ runs < MaxRuns
    /\ runs' = runs + 1
    /\ previous' = manifest
    /\ mnv' = IF mnv.state = "new" THEN [mnv EXCEPT !.state = "old"] ELSE mnv
    /\ fs0' = <<temp, mnv'>>
    /\ pc' = "validate"
    /\ error' = ""
    /\ steps' = <<>>
    /\ info' = <<>>
    /\ external_resources' = EmptyDict
    /\ locales' = EmptyDict
    /\ texture_layers' = <<>>
    /\ texture_group' = NoGroup
    /\ tags' = 0
    /\ return_code' = -1
    /\ manifest' = <<>>
    /\ UNCHANGED <<project, decl, output_path, temp, pck, rebase>>

NextRuns ==
    \/ Next
    \/ Rerun

SpecRuns == InitRuns /\ [][NextRuns]_vars

(***************************************************************************)
(* _save_pck, step by step: the godot subprocess, the two pipes and the    *)
(* two _read_stream threads.                                               *)
(***************************************************************************)
\* the run has reached _save_pck(project_path, temp_path) on a project with
\* an empty declaration file
InitPck ==
    /\ project = DefaultProject(TRUE)
    /\ decl = <<>>
    /\ temp = [exists |-> TRUE, files |-> {}]
    /\ mnv = NoPackage
    /\ fs0 \in {<<NoTemp, NoPackage>>, <<StaleTemp, NoPackage>>}
    /\ pc = "pck"
    /\ error = ""
    /\ steps = <<"validate", "load", "extract", "stage">>
    /\ info = Render(decl, project.newline)
    /\ external_resources = get_external_resources(ProjectPath, info)
    /\ locales = get_locales(info)
    /\ texture_layers = get_textures(external_resources, info).layers
    /\ texture_group = get_textures(external_resources, info).group
    /\ tags = get_tags(info)
    /\ return_code = -1
    /\ manifest = <<>>
    /\ output_path = ""
    /\ runs = 1
    /\ previous = <<>>
    /\ pck = [PckIdle EXCEPT !.main = "popen"]
    /\ rebase = RebaseIdle

\* what a step of the subprocess or of a reader thread leaves alone
pipeline == <<files, others, mnv, pc, error, steps, locals, manifest>>

\* subprocess.Popen(["godot", ...], stdout=PIPE, stderr=PIPE): the process
\* starts with some output to write to each stream, or godot is not in PATH
Popen ==
    /\ pc = "pck"
    /\ pck.main = "popen"
    /\ \E found \in BOOLEAN :
          IF found
          THEN /\ \E out \in 0..MaxOutput, err \in 0..MaxOutput :
                     pck' = [pck EXCEPT !.main = "start stdout",
                                        !.proc = "running",
                                        !.towrite = [stdout |-> out, stderr |-> err]]
               /\ UNCHANGED <<pc, error, steps>>
          ELSE /\ pck' = [pck EXCEPT !.main = "raised"]
               /\ steps' = Append(steps, "pck")
               /\ Raise("Godot executable not found")
    /\ UNCHANGED <<files, others, temp, mnv, locals, return_code, manifest>>

\* stdout_thread.start(); stderr_thread.start()
Start ==
    /\ pck.main \in {"start stdout", "start stderr"}
    /\ pck' = IF pck.main = "start stdout"
              THEN [pck EXCEPT !.main = "start stderr", !.thread.stdout = "running"]
              ELSE [pck EXCEPT !.main = "wait", !.thread.stderr = "running"]
    /\ UNCHANGED <<pipeline, temp, return_code>>

\* the subprocess writes a line to a stream: blocks while the pipe is full
ProcWrite(s) ==
    /\ pck.proc = "running"
    /\ pck.towrite[s] > 0
    /\ pck.pipe[s] < PipeCap
    /\ pck' = [pck EXCEPT !.towrite[s] = @ - 1, !.pipe[s] = @ + 1]
    /\ UNCHANGED <<pipeline, temp, return_code>>

\* the subprocess has written its output and exits, which closes its ends of
\* the pipes, with <name>.pck written or not
ProcExit ==
    /\ pck.proc = "running"
    /\ \A s \in Streams : pck.towrite[s] = 0
    /\ \E outcome \in {"exported", "failed", "failed, file written"} :
          /\ pck' = [pck EXCEPT !.proc = "exited",
                                !.code = IF outcome = "exported" THEN 0 ELSE 1]
          /\ temp' = IF outcome \in {"exported", "failed, file written"}
                     THEN [temp EXCEPT !.files = @ \cup {<<"proj.pck">>}]
                     ELSE temp
    /\ UNCHANGED <<pipeline, return_code>>

\* one reader for both streams, stdout first, instead of two threads
MayReadStdoutFirst(s) ==
    /\ pck.thread[s] = "running"
    /\ pck.pipe[s] > 0
    /\ s = "stderr" => pck.thread.stdout = "done"

\* a reader may take a line: its thread runs and the pipe holds one
MayRead(s) ==
    /\ pck.thread[s] = "running"
    /\ pck.pipe[s] > 0

\* _read_stream: `for line in stream: print(...)`, one line
ReadLine(s) ==
    /\ MayRead(s)
    /\ pck' = [pck EXCEPT !.pipe[s] = @ - 1]
    /\ UNCHANGED <<pipeline, temp, return_code>>

\* _read_stream: the loop ends at end of file, which the stream reaches when
\* the pipe is empty and its write end is closed
ReadEOF(s) ==
    /\ pck.thread[s] = "running"
    /\ pck.pipe[s] = 0
    /\ pck.proc = "exited"
    /\ pck' = [pck EXCEPT !.thread[s] = "done"]
    /\ UNCHANGED <<pipeline, temp, return_code>>

\* return_code = process.wait()
Wait ==
    /\ pck.main = "wait"
    /\ pck.proc = "exited"
    /\ return_code' = pck.code
    /\ pck' = [pck EXCEPT !.main = "join stdout"]
    /\ UNCHANGED <<pipeline, temp>>

\* a join that does not wait for the thread
JoinedNoWait(s) == TRUE

\* Thread.join returns once the thread has finished
Joined(s) == pck.thread[s] = "done"

\* stdout_thread.join(); stderr_thread.join()
Join ==
    /\ pck.main \in {"join stdout", "join stderr"}
    /\ IF pck.main = "join stdout"
       THEN /\ Joined("stdout")
            /\ pck' = [pck EXCEPT !.main = "join stderr"]
       ELSE /\ Joined("stderr")
            /\ pck' = [pck EXCEPT !.main = "check"]
    /\ UNCHANGED <<pipeline, temp, return_code>>

\* if return_code != 0: raise
Check ==
    /\ pck.main = "check"
    /\ steps' = Append(steps, "pck")
    /\ IF ExportFailed(return_code)
       THEN /\ pck' = [pck EXCEPT !.main = "raised"]
            /\ Raise("Failed exporting project")
       ELSE /\ pck' = [pck EXCEPT !.main = "returned"]
            /\ Goto(NextStep("pck"))
    /\ UNCHANGED <<files, others, temp, mnv, locals, return_code, manifest>>

Process == ProcExit \/ \E s \in Streams : ProcWrite(s)
Reader(s) == ReadLine(s) \/ ReadEOF(s)
Main == Popen \/ Start \/ Wait \/ Join \/ Check

NextPck ==
    \/ Popen
    \/ Start
    \/ \E s \in Streams : ProcWrite(s)
    \/ ProcExit
    \/ \E s \in Streams : ReadLine(s)
    \/ \E s \in Streams : ReadEOF(s)
    \/ Wait
    \/ Join
    \/ Check

SpecPck == InitPck /\ [][NextPck]_vars

\* the operating system runs the subprocess, and the interpreter each of its
\* threads, whenever it can take a step
SpecPckFair ==
    /\ SpecPck
    /\ WF_vars(Process)
    /\ WF_vars(Reader("stdout"))
    /\ WF_vars(Reader("stderr"))
    /\ WF_vars(Main)

(***************************************************************************)
(* rebase.py: the template rebase workflow.                                *)
(*                                                                         *)
(* rebase.cmds is the sequence of the git commands run so far with their   *)
(* exit codes, rebase.out the messages printed, rebase.exit the exit       *)
(* status of the script (-1 while it runs).                                *)
(***************************************************************************)
\* what rebase.py never touches
exporter ==
    <<project, decl, temp, mnv, fs0, pc, error, steps, locals, return_code,
      manifest, output_path, runs, previous, pck>>

\* the script is started in a repository whose work tree is clean or dirty
\* and that has the remote miniverse-template or not
InitRebase ==
    /\ project = DefaultProject(TRUE)
    /\ decl = <<>>
    /\ temp = NoTemp
    /\ mnv = NoPackage
    /\ fs0 = <<temp, mnv>>
    /\ pc = "validate"
    /\ error = ""
    /\ steps = <<>>
    /\ info = <<>>
    /\ external_resources = EmptyDict
    /\ locales = EmptyDict
    /\ texture_layers = <<>>
    /\ texture_group = NoGroup
    /\ tags = 0
    /\ return_code = -1
    /\ manifest = <<>>
    /\ output_path = ""
    /\ runs = 1
    /\ previous = <<>>
    /\ pck = PckIdle
    /\ \E dirty \in BOOLEAN, has_remote \in BOOLEAN :
          rebase = [pc |-> "check_clean_work_tree", dirty |-> dirty,
                    has_remote |-> has_remote, cmds |-> <<>>, out |-> <<>>,
                    prompts |-> 0, exit |-> -1]

\* the exit codes of a git command
ReturnCodes == {0, 1}

\* result.returncode == 0, with the test left out
SucceededUntested(returncode) == TRUE

\* result.returncode == 0
Succeeded(returncode) == returncode = 0

\* subprocess.run(command, shell=True) has returned with an exit code
Ran(r, command, returncode) ==
    [r EXCEPT !.cmds = Append(@, [cmd |-> command, rc |-> returncode])]

\* print(...), one message after the other
Printed(r, messages) == [r EXCEPT !.out = @ \o messages]

\* sys.exit(status), or the end of main (status 0)
Exited(r, status) == [r EXCEPT !.pc = "done", !.exit = status]

\* run_command(command) with check=True: a failing command ends the script
RunChecked(r, command, returncode, next) ==
    IF returncode = 0
    THEN [Ran(r, command, returncode) EXCEPT !.pc = next]
    ELSE Exited(Printed(Ran(r, command, returncode), <<"Error running command">>), 1)

\* check_clean_work_tree
check_clean_work_tree ==
    /\ rebase.pc = "check_clean_work_tree"
    /\ \E rc \in ReturnCodes :
          LET r == RunChecked(rebase, "git status --porcelain", rc, "setup_remote")
          IN  rebase' = IF rc = 0 /\ rebase.dirty
                        THEN Exited(Printed(r, <<"Your working tree is dirty">>), 1)
                        ELSE r
    /\ UNCHANGED exporter

\* setup_remote: `git remote -v`, then add or set-url
setup_remote ==
    /\ rebase.pc = "setup_remote"
    /\ \E rc1 \in ReturnCodes, rc2 \in ReturnCodes :
          LET r == RunChecked(rebase, "git remote -v", rc1, "setup_remote")
          IN  rebase' =
                  IF rc1 # 0 THEN r
                  ELSE IF ~rebase.has_remote
                  THEN [RunChecked(r, "git remote add", rc2, "fetch")
                           EXCEPT !.has_remote = (rc2 = 0)]
                  ELSE RunChecked(r, "git remote set-url", rc2, "fetch")
    /\ UNCHANGED exporter

\* run_command("git fetch miniverse-template")
fetch ==
    /\ rebase.pc = "fetch"
    /\ \E rc \in ReturnCodes :
          rebase' = RunChecked(rebase, "git fetch", rc, "rebase")
    /\ UNCHANGED exporter

\* main: the rebase onto miniverse-template/master, with check=False
start_rebase ==
    /\ rebase.pc = "rebase"
    /\ \E rc \in ReturnCodes :
          LET r == Ran(rebase, "git rebase", rc)
          IN  rebase' = IF Succeeded(rc)
                        THEN Exited(Printed(r, <<"Success! up to date">>), 0)
                        ELSE [r EXCEPT !.pc = "handle_conflicts"]
    /\ UNCHANGED exporter

\* handle_conflicts: one round of the loop, from the prompt to the next one
handle_conflicts ==
    /\ rebase.pc = "handle_conflicts"
    /\ \E choice \in {"a", "c", "other"}, rc \in ReturnCodes :
          LET r == [Printed(rebase, <<"CONFLICTS DETECTED">>)
                       EXCEPT !.prompts = @ + 1]
          IN  /\ (choice = "other" \/ (choice = "c" /\ ~Succeeded(rc)))
                     => rebase.prompts + 1 < MaxPrompts
              /\ rebase' =
                    CASE choice = "a" ->
                           Exited(Ran(Printed(r, <<"Aborting rebase">>),
                                      "git rebase --abort", rc), 1)
                      [] choice = "c" ->
                           LET c == Ran(r, "git rebase --continue", rc)
                           IN  IF Succeeded(rc)
                               THEN Exited(Printed(c, <<"Rebase continue successful!",
                                                        "Success! Rebase finished">>), 0)
                               ELSE Printed(c, <<"conflicts are not fully resolved">>)
                      [] OTHER -> Printed(r, <<"Invalid input.">>)
    /\ UNCHANGED exporter

\* input() at the prompt meets the end of standard input: EOFError, which
\* nothing catches
EndOfInput ==
    /\ rebase.pc = "handle_conflicts"
    /\ rebase' = Exited(Printed(rebase, <<"CONFLICTS DETECTED", "Traceback: EOFError">>), 1)
    /\ UNCHANGED exporter

\* __main__: except KeyboardInterrupt, at any point of main
KeyboardInterrupt ==
    /\ rebase.pc \notin {"idle", "done"}
    /\ rebase' = Exited(Printed(rebase, <<"Script interrupted by user.">>), 1)
    /\ UNCHANGED exporter

NextRebase ==
    \/ check_clean_work_tree
    \/ setup_remote
    \/ fetch
    \/ start_rebase
    \/ handle_conflicts
    \/ EndOfInput
    \/ KeyboardInterrupt

SpecRebase == InitRebase /\ [][NextRebase]_vars

(***************************************************************************)
(* What the declaration file declares, read off its blocks (not its text). *)
(***************************************************************************)
Executed(step) == \E i \in 1..Len(steps) : steps[i] = step

IsPrefix(s, t) == Len(s) <= Len(t) /\ s = SubSeq(t, 1, Len(s))

Last(s) == s[Len(s)]

\* the well-formed external-resource declarations, and those with one id
Declarations(d) == SelectSeq(d, LAMBDA b : b.type = "ext_resource")
DeclarationsOf(d, id) == SelectSeq(Declarations(d), LAMBDA b : b.id = id)
DeclaredIds(d) == {Declarations(d)[i].id : i \in 1..Len(Declarations(d))}

\* the texture-layer blocks that have a texture reference, and those with one id
TexturedLayers(d) ==
    SelectSeq(d, LAMBDA b : b.type = "ColorTextureLayer" /\ b.tex # <<>>)
TexturedLayersOf(d, id) == SelectSeq(TexturedLayers(d), LAMBDA b : b.id = id)
LayerBlockIds(d) == {d[i].id : i \in {j \in 1..Len(d) : d[j].type = "ColorTextureLayer"}}

GroupsOf(d) == SelectSeq(d, LAMBDA b : b.type = "ColorTextureGroup")

\* the ids the first group block references (none without a layers field)
GroupReferences(d) ==
    IF GroupsOf(d)[1].layers = <<>> THEN <<>> ELSE GroupsOf(d)[1].layers[1]

NumI18N(d) == Len(SelectSeq(d, LAMBDA b : b.type = "I18N"))

\* a declared path without its res:// prefix
Unprefixed(p) == IF p[1] = "res://" THEN SubSeq(p, 2, Len(p)) ELSE p

\* the absolute path a declared path stands for
Resolved(p) ==
    IF Unprefixed(p)[1] = "/" THEN Unprefixed(p) ELSE ProjectPath \o Unprefixed(p)

\* the segments of a relative path written with forward slashes
Slashed(p) ==
    [i \in 1..(2 * Len(p) - 1) |-> IF i % 2 = 1 THEN p[(i + 1) \div 2] ELSE "/"]

\* the project-relative, forward-slash path of the texture of layer id
TexturePathOf(d, id) ==
    Slashed(Unprefixed(Last(DeclarationsOf(d, Last(TexturedLayersOf(d, id)).tex[1])).path))

(***************************************************************************)
(* Properties.                                                             *)
(***************************************************************************)
\* C1: when the manifest has a texture_group, it lists the resolved texture
\* paths (project-relative, forward slashes) of the group's valid layers, in
\* group order -- not the layer ids.
C1_GroupListsTexturePaths ==
    (manifest # <<>> /\ "texture_group" \in DOMAIN manifest[1]) =>
        LET valid == SelectSeq(GroupReferences(decl),
                               LAMBDA id : TexturedLayersOf(decl, id) # <<>>)
        IN  manifest[1].texture_group =
                [i \in 1..Len(valid) |-> TexturePathOf(decl, valid[i])]

\* C2: in every terminal state of a run that staged, the staging directory
\* no longer exists.
C2_StagingRemovedAtExit ==
    (Terminated /\ Executed("stage")) => ~temp.exists

\* C3: when the builder exits non-zero, the manifest write, asset copy,
\* archive and move steps are never executed and the run ends with a fatal
\* error without writing the package.
C3_BuilderFailureStopsRun ==
    (return_code # -1 /\ return_code # 0) =>
        /\ ~Executed("json") /\ ~Executed("textures")
        /\ ~Executed("zip") /\ ~Executed("move")
        /\ manifest = <<>>
        /\ mnv = fs0[2]
        /\ pc = "exit1"

C3_Witness ==
    /\ return_code = 1
    /\ pc = "exit1"
    /\ <<"proj.pck">> \in temp.files
    /\ texture_layers # <<>>

\* C4: without the project marker file the run aborts with a fatal error
\* before the staging directory is created or an existing one removed: the
\* filesystem stays as it was.
C4_NoMarkerNoChange ==
    ~project.marker =>
        /\ <<temp, mnv>> = fs0
        /\ ~Executed("load") /\ ~Executed("stage")
        /\ Terminated => pc = "exit1"

C4_Witness ==
    /\ ~project.marker
    /\ pc = "exit1"
    /\ temp = StaleTemp
    /\ project.tres = "ok"

\* the steps of the assembler among the executed steps
AssemblerSteps ==
    SelectSeq(steps, LAMBDA x : x \in {"stage", "pck", "json", "textures", "zip", "rmtree"})

\* C5 as claimed: stage, builder, manifest write, asset copy, archive, cleanup.
C5_ManifestBeforeAssets ==
    IsPrefix(AssemblerSteps, <<"stage", "pck", "json", "textures", "zip", "rmtree">>)

\* C5: the assembler steps occur strictly in the order stage, builder, asset
\* copy, manifest write, archive, cleanup, none repeated; the texture assets
\* are copied before the manifest is written.
C5_AssetsBeforeManifest ==
    /\ IsPrefix(AssemblerSteps, <<"stage", "pck", "textures", "json", "zip", "rmtree">>)
    /\ pc \in {"stage", "pck", "textures", "json"} => manifest = <<>>
    /\ manifest # <<>> =>
          \/ pc = "exit0"
          \/ \A i \in 1..Len(texture_layers) :
                RelativeTo(texture_layers[i].path, ProjectPath) \in temp.files

C5_Witness ==
    /\ pc = "exit0"
    /\ steps = <<"validate", "load", "extract", "stage", "pck", "textures", "json",
                 "zip", "move", "rmtree">>
    /\ texture_layers # <<>>

\* C6: the Localization Extractor never aborts the export: for every
\* declaration text, also one whose single internationalization block has an
\* empty body, it returns a mapping instead of raising.
C6_LocalesNeverRaise ==
    ~(pc = "exit1" /\ error = "IndexError")

\* C7: with zero or more than one internationalization block the extractor
\* returns the empty mapping and the export goes on; entries are extracted
\* only when exactly one block is present.
C7_OneBlockOrEmpty ==
    Executed("extract") =>
        /\ NumI18N(decl) # 1 => (locales = EmptyDict /\ error # "IndexError")
        /\ locales # EmptyDict => NumI18N(decl) = 1

C7_Witness ==
    /\ NumI18N(decl) = 2
    /\ \A i \in 1..Len(decl) : decl[i].type = "I18N" /\ Len(decl[i].entries) = 2
    /\ pc = "stage"
    /\ locales = EmptyDict

\* C8 as claimed: the manifest has the texture_group key exactly when the
\* declaration file has a texture-group block.
C8_KeyIffGroupBlock ==
    manifest # <<>> =>
        ("texture_group" \in DOMAIN manifest[1] <=> GroupsOf(decl) # <<>>)

\* C8: the manifest has the texture_group key exactly when a texture-group
\* block was found and one of its references resolves to a layer; a found
\* group with no resolving reference (or no layers field) omits the key, as
\* a missing group block does.
C8_KeyIffNonEmptyGroup ==
    manifest # <<>> =>
        ("texture_group" \in DOMAIN manifest[1] <=>
            /\ GroupsOf(decl) # <<>>
            /\ \E i \in 1..Len(GroupReferences(decl)) :
                  TexturedLayersOf(decl, GroupReferences(decl)[i]) # <<>>)

C8_Witness ==
    /\ manifest # <<>>
    /\ GroupsOf(decl) # <<>>
    /\ GroupReferences(decl) = <<"C">>
    /\ texture_group = [found |-> TRUE, ids |-> <<>>]
    /\ texture_layers # <<>>
    /\ "texture_group" \notin DOMAIN manifest[1]

\* C9 as claimed: N well-formed declarations give exactly N entries.
C9_OneEntryPerDeclaration ==
    Executed("extract") =>
        Cardinality(DOMAIN external_resources) = Len(Declarations(decl))

\* C9: the Resolver's mapping has one entry per distinct id of the
\* well-formed declarations (N entries for N declarations with pairwise
\* distinct ids, none for none); the entry of an id is the path of the last
\* declaration with that id, its res:// prefix stripped, joined to the
\* project root.
C9_OneEntryPerId ==
    Executed("extract") =>
        /\ DOMAIN external_resources = DeclaredIds(decl)
        /\ \A id \in DeclaredIds(decl) :
              external_resources[id] = Resolved(Last(DeclarationsOf(decl, id)).path)
        /\ (\A i, j \in 1..Len(Declarations(decl)) :
               i # j => Declarations(decl)[i].id # Declarations(decl)[j].id)
           => Cardinality(DOMAIN external_resources) = Len(Declarations(decl))

C9_Witness ==
    /\ Executed("extract")
    /\ decl = <<Ext(<<"res://", "tex", "a.png">>, "1"), Ext(<<"res://", "b.png">>, "1")>>
    /\ external_resources = [id \in {"1"} |-> <<"/", "proj", "b.png">>]

\* a texture layer references an id the Resolver's mapping lacks
UnknownReference(d) ==
    \E i \in 1..Len(TexturedLayers(d)) : TexturedLayers(d)[i].tex[1] \notin DeclaredIds(d)

C11_GroupIsValidSubsequence ==
    (Executed("extract") /\ error \notin {"IndexError", "KeyError"}) =>
        IF GroupsOf(decl) = <<>> THEN texture_group = NoGroup
        ELSE /\ texture_group.found
             /\ texture_group.ids =
                    SelectSeq(GroupReferences(decl),
                              LAMBDA id : TexturedLayersOf(decl, id) # <<>>)

C11_Witness ==
    /\ pc = "stage"
    /\ GroupsOf(decl) # <<>>
    /\ GroupReferences(decl) = <<"A", "B", "C">>
    /\ texture_group = [found |-> TRUE, ids |-> <<"A", "B">>]
(***************************************************************************)
(* The builder step.                                                       *)
(***************************************************************************)
\* the subprocess has terminated and both readers have read to end of file
Drained ==
    /\ pck.proc = "exited"
    /\ \A s \in Streams :
          pck.thread[s] = "done" /\ pck.pipe[s] = 0 /\ pck.towrite[s] = 0

\* _save_pck is over: it returned or raised
PckFinished == pck.main \in {"returned", "raised"}

\* C12: in every interleaving of the subprocess and the two readers, the
\* exit code is inspected, and the pipeline goes on to the next step, only
\* after the subprocess has terminated and both readers have read to end of
\* file and finished.
C12_JoinBeforeInspect ==
    /\ pck.main = "check" => Drained
    /\ Executed("pck") /\ error # "Godot executable not found" => Drained
    /\ pc # "pck" => (PckFinished /\ (pc # "exit1" => Drained /\ return_code = 0))

C12_Witness ==
    /\ pc = "textures"
    /\ pck.main = "returned"
    /\ Drained

\* C13: with bounded pipes and any finite output on the two streams, the
\* builder step never deadlocks and, under fair scheduling, completes.
C13_BuilderStepCompletes ==
    /\ [](PckFinished \/ ENABLED NextPck)
    /\ <>PckFinished

\* the subprocess is blocked on a full stderr pipe, with more to write to
\* both streams, before the stderr reader has started
C13_Witness ==
    /\ pck.proc = "running"
    /\ pck.pipe.stderr = PipeCap
    /\ pck.towrite.stderr > 0
    /\ pck.towrite.stdout > 0
    /\ pck.thread.stderr = "new"
(***************************************************************************)
(* The run as a whole.                                                     *)
(***************************************************************************)
\* every step of a run that ends with sys.exit(0)
AllSteps ==
    <<"validate", "load", "extract", "stage", "pck", "textures", "json",
      "zip", "move", "rmtree">>

\* this run has moved its package to <output>/<name>.mnv
PackagePlaced == Executed("move") /\ Last(steps) # "move"

\* C14: the export is all-or-nothing: a fatal error at any step stops the
\* run (no later step is executed, none is retried) and the run ends with
\* exit status 1 without having placed a package in the output directory;
\* exit status 0 is reached only when every step, cleanup included, completed.
C14_AllOrNothing ==
    /\ IsPrefix(steps, AllSteps)
    /\ pc = "exit1" => (error # "" /\ ~ENABLED Next /\ ~PackagePlaced)
    /\ pc = "exit0" => (error = "" /\ steps = AllSteps)

\* the part of C14 that holds: an error ends the run, and exit status 0
\* needs every step
C14_ErrorStopsRun ==
    /\ IsPrefix(steps, AllSteps)
    /\ pc = "exit1" => (error # "" /\ ~ENABLED Next)
    /\ pc = "exit0" => (error = "" /\ steps = AllSteps)
\* C15: after a successful run the archive holds the manifest, the .pck and
\* the asset of every texture layer at its path relative to the project;
\* the entry names are relative to the staging directory, and the archive
\* itself is never one of them.
C15_ArchiveContents ==
    (PackagePlaced /\ mnv.state = "new") =>
        /\ <<"proj.json">> \in mnv.entries
        /\ <<"proj.pck">> \in mnv.entries
        /\ \A i \in 1..Len(texture_layers) :
              RelativeTo(texture_layers[i].path, ProjectPath) \in mnv.entries
        /\ <<"proj.zip">> \notin mnv.entries
        /\ \A entry \in mnv.entries : ~IsAbsolute(entry)

C15_Witness ==
    /\ pc = "exit0"
    /\ mnv.state = "new"
    /\ Len(texture_layers) = 2
    /\ mnv.entries = {<<"proj.json">>, <<"proj.pck">>, <<"tex", "a.png">>, <<"b.png">>}
(***************************************************************************)
(* Repeated runs.                                                          *)
(***************************************************************************)
\* the manifest of a declaration file, computed from its text alone
ManifestOf(d, newline) ==
    LET text == Render(d, newline)
        t == get_textures(get_external_resources(ProjectPath, text), text)
    IN  json_info(ProjectPath, "/", get_locales(text), t.layers, t.group,
                  get_tags(text))

StagedByThisRun ==
    {<<"proj.pck">>, <<"proj.json">>}
    \cup {RelativeTo(texture_layers[i].path, ProjectPath) :
              i \in {j \in 1..Len(texture_layers) :
                         IsRelativeTo(texture_layers[j].path, ProjectPath)}}

\* C17: whatever earlier runs have left in the staging directory, the
\* staging step leaves it existing and empty before the builder is invoked,
\* so the package of a later successful run holds no leftover file.
C17_StagingStartsEmpty ==
    /\ pc = "pck" => temp = [exists |-> TRUE, files |-> {}]
    /\ Executed("pck") => temp.files \subseteq
                              StagedByThisRun \cup {<<"proj.zip">>}
                              \cup {PackageInStaging(output_path)}
    /\ (PackagePlaced /\ mnv.state = "new") => mnv.entries \subseteq StagedByThisRun

\* a successful run after a failed one that left textures in the staging
\* directory
C17_Witness ==
    /\ runs > 1
    /\ fs0[1].exists
    /\ <<"tex", "a.png">> \in fs0[1].files
    /\ <<"proj.json">> \notin fs0[1].files
    /\ pc = "exit0"
    /\ mnv.state = "new"
(***************************************************************************)
(* Errors before staging.                                                  *)
(***************************************************************************)
\* the errors of loading the declaration file and of the extractors
LoadErrors == {"info file not found", "failed to load info file"}
ExtractionErrors == {"KeyError", "IndexError"}

\* C18: a fatal error while loading the declaration file or during
\* extraction (missing or unreadable file, texture layer with an unresolved
\* resource id) aborts the run before the staging directory is created or
\* cleared and before the builder is invoked: the filesystem is unchanged.
C18_EarlyErrorsChangeNothing ==
    /\ error \in LoadErrors \cup ExtractionErrors =>
          /\ pc = "exit1"
          /\ <<temp, mnv>> = fs0
          /\ ~Executed("stage")
          /\ ~Executed("pck")
    /\ (pc = "exit1" /\ Last(steps) \in {"load", "extract"}) =>
          error \in LoadErrors \cup ExtractionErrors
    /\ (pc = "exit1" /\ project.marker /\ project.tres # "ok") => error \in LoadErrors
    /\ (pc = "exit1" /\ project.marker /\ project.tres = "ok" /\ decl = Dangling) =>
          error = "KeyError"

\* a dangling texture reference met with a stale staging directory and an
\* old package in place
C18_Witness ==
    /\ error = "KeyError"
    /\ decl = Dangling
    /\ temp = StaleTemp
    /\ mnv = OldPackage
(***************************************************************************)
(* The output directory.                                                   *)
(***************************************************************************)
\* C19: whenever a run ends with exit status 0, the package <name>.mnv of
\* that run exists in the requested output directory after cleanup, for
\* every output override, the staging directory or one inside it included.
C19_PackageDelivered ==
    pc = "exit0" => (mnv.state = "new" /\ ~temp.exists)

\* the part of C19 that holds: the package is delivered unless the output
\* directory is in the staging directory
C19_DeliveredOutsideStaging ==
    pc = "exit0" => (mnv.state = "new" <=> ~InStaging(output_path))
(***************************************************************************)
(* The rebase workflow.                                                    *)
(***************************************************************************)
\* the commands run, the messages printed
Commands == {rebase.cmds[i].cmd : i \in 1..Len(rebase.cmds)}
Messages == {rebase.out[i] : i \in 1..Len(rebase.out)}

SuccessMessages ==
    {"Success! up to date", "Rebase continue successful!", "Success! Rebase finished"}

\* a rebase or a continue has returned 0
RebaseReturnedZero ==
    \E i \in 1..Len(rebase.cmds) :
        /\ rebase.cmds[i].cmd \in {"git rebase", "git rebase --continue"}
        /\ rebase.cmds[i].rc = 0

\* the script has entered the conflict loop and is no longer in it
LeftConflictLoop ==
    /\ rebase.pc = "done"
    /\ \E i \in 1..Len(rebase.cmds) :
          rebase.cmds[i].cmd = "git rebase" /\ rebase.cmds[i].rc # 0

\* the two ways out of the loop that handle_conflicts codes
ContinuedOrAborted ==
    \/ /\ rebase.exit = 0
       /\ Last(rebase.cmds) = [cmd |-> "git rebase --continue", rc |-> 0]
    \/ /\ rebase.exit = 1
       /\ Last(rebase.cmds).cmd = "git rebase --abort"

\* the prompt was interrupted, or met the end of input
PromptBroken ==
    /\ rebase.exit = 1
    /\ Last(rebase.out) \in {"Script interrupted by user.", "Traceback: EOFError"}
    /\ Last(rebase.cmds).cmd \in {"git rebase", "git rebase --continue"}
    /\ Last(rebase.cmds).rc # 0

DirtyRunsOnlyStatus ==
    rebase.dirty => Commands \subseteq {"git status --porcelain"}

SuccessOnlyAfterZero ==
    (Messages \cap SuccessMessages # {}) => RebaseReturnedZero

\* C20 as stated: with a dirty work tree no git command but the status query
\* is run; a success message is printed only if the rebase or a later
\* continue returned 0; the conflict loop is left only through a successful
\* continue or an abort (exit status 1).
C20_LoopLeftByContinueOrAbort ==
    /\ DirtyRunsOnlyStatus
    /\ SuccessOnlyAfterZero
    /\ LeftConflictLoop => ContinuedOrAborted

\* C20, amended: the conflict loop is left through a successful continue,
\* an abort, or a prompt that is interrupted or at the end of input, which
\* ends the script with exit status 1 and the rebase still in progress.
C20_LoopLeftByContinueAbortOrInterrupt ==
    /\ DirtyRunsOnlyStatus
    /\ SuccessOnlyAfterZero
    /\ LeftConflictLoop => (ContinuedOrAborted \/ PromptBroken)
    /\ rebase.exit = 0 => RebaseReturnedZero

\* the prompt is interrupted after a continue that failed
C20_Witness ==
    /\ LeftConflictLoop
    /\ PromptBroken
    /\ ~ContinuedOrAborted
    /\ Last(rebase.cmds).cmd = "git rebase --continue"

====
